---- MODULE Spec2Model ----
(***************************************************************************)
(* Model of the HWPX table analyser: the section grouper (group_by_dong,   *)
(* group_data_by_dong), the floor band capture loop of make_excel_bytes,   *)
(* filter_by_floor_range, split_by_floor_ranges, the session actions of    *)
(* the web programs (upload, analyse, add, delete, clear) with the sheets  *)
(* make_excel_bytes writes, and the tag lookups of the three extractors.   *)
(*                                                                         *)
(* Text is a sequence of tokens.  A token is a digit "0".."9", a blank     *)
(* " ", or one of the words the program tests for, written in ASCII:       *)
(*   "dong"   the section suffix (U+B3D9)                                  *)
(*   "cheung" the floor suffix (U+CE35)                                    *)
(*   "jiha"   the basement word, "B" the basement letter                   *)
(*   "jisang" the ground word (a floor_type only)                          *)
(*   "jeongmyeondo", "baemyeondo"  the front / rear elevation words        *)
(*   "oktap", "jibung"             the rooftop / roof words                *)
(*   the exclusion words of make_excel_bytes (see exclude_keywords)        *)
(*   "x"      any other text                                               *)
(* A word is never split over two tokens, so `kw in text` is membership    *)
(* of the token and a regular expression is matched token by token.        *)
(***************************************************************************)
EXTENDS Integers, Sequences, FiniteSets, TLC

VARIABLES
    \* section grouper
    g_variant,      \* "app": group_by_dong, "analyzer": group_data_by_dong
    g_rows,         \* the rows of all tables, in document order
    g_i,            \* index of the next row of the loop
    current_dong,   \* the current section identifier, or NONE
    dong_data,      \* section identifier -> list of rows (as stream positions)
    \* the row loop of make_excel_bytes for one floor number
    all_rows,       \* df.values.tolist() of the section
    floor_type,     \* "jiha" (basement) or "jisang" (ground)
    floor_num,      \* the floor number being scanned
    s_i,            \* index of the next row of `for row in all_rows`
    s_pc,           \* "scan", "break" (left by break at row s_i) or "end" (rows exhausted)
    capturing,
    skip_section,
    floor_rows,     \* the rows captured, as positions in all_rows
    \* make_excel_bytes for one section that has floor ranges
    e_rows,         \* st.session_state.dong_data[dong_name]
    e_ranges,       \* st.session_state.floor_ranges[dong_name], in insertion order
    e_k,            \* index of the current item of floor_ranges[dong_name].items()
    e_f,            \* floor_num of `for floor_num in range(start_floor, end_floor + 1)`
    e_pc,           \* "title", "floors" or "done"
    combined_data,
    \* filter_by_floor_range
    f_rows,         \* rows
    start_floor,
    end_floor,
    f_i,            \* index of the next row of `for row in rows`
    filtered_rows,
    \* the session of one of the two web programs
    u_app,              \* "app": hwpx_app.py, "analyzer": hwpx_analyzer_app.py
    uploaded_file,      \* the package given to the last upload or analyse action
    last_action,        \* "none", "upload", "analyse", "add", "delete" or "clear"
    session_dong_data,  \* st.session_state.dong_data
    session_floor_ranges, \* st.session_state.floor_ranges: section -> list of (name, range_info)
    \* split_by_floor_ranges of split_by_floor.py for one sheet that has a configuration
    p_rows,         \* the rows of df
    p_ranges,       \* floor_config[sheet_name], in the order of the file
    p_k,            \* index of the current item of floors.items()
    p_pc,           \* "band" or "done"
    p_combined,     \* combined_data
    \* one tag lookup of one of the three extractors
    l_prog,         \* "app", "analyzer" or "by_dong" (hwpx_to_excel_by_dong.py)
    l_tag,          \* "tbl", "tr", "tc" or "t"
    l_plain,        \* the descendants with the unqualified tag, in document order
    l_qualified,    \* the descendants with the namespace-qualified tag
    l_pc,           \* "call" or "done"
    l_found         \* the elements the extractor goes on with

g_vars == <<g_variant, g_rows, g_i, current_dong, dong_data>>

s_vars == <<all_rows, floor_type, floor_num, s_i, s_pc, capturing, skip_section, floor_rows>>

e_vars == <<e_rows, e_ranges, e_k, e_f, e_pc, combined_data>>

f_vars == <<f_rows, start_floor, end_floor, f_i, filtered_rows>>

u_vars == <<u_app, uploaded_file, last_action, session_dong_data, session_floor_ranges>>

p_vars == <<p_rows, p_ranges, p_k, p_pc, p_combined>>

l_vars == <<l_prog, l_tag, l_plain, l_qualified, l_pc, l_found>>

vars == <<g_vars, s_vars, e_vars, f_vars, u_vars, p_vars, l_vars>>

\* ------------------------------------------------------------------ text

Digits == <<"0", "1", "2", "3", "4", "5", "6", "7", "8", "9">>

DigitSet == {"0", "1", "2", "3", "4", "5", "6", "7", "8", "9"}

IsDigit(c) == c \in DigitSet

DigitValue(c) == (CHOOSE d \in DOMAIN Digits : Digits[d] = c) - 1

\* str(n) of a non-negative integer
RECURSIVE str(_)
str(n) == IF n < 10 THEN <<Digits[n + 1]>>
          ELSE str(n \div 10) \o <<Digits[(n % 10) + 1]>>

\* int(s) of a digit string
RECURSIVE int(_)
int(s) == IF Len(s) = 0 THEN 0
          ELSE 10 * int(SubSeq(s, 1, Len(s) - 1)) + DigitValue(s[Len(s)])

\* `kw in text` for a one-token keyword
Contains(text, kw) == \E i \in DOMAIN text : text[i] = kw

\* `sub in text` for a token string
HasSub(text, sub) ==
    \E i \in 1..(Len(text) - Len(sub) + 1) : SubSeq(text, i, i + Len(sub) - 1) = sub

\* ' '.join(parts)
RECURSIVE join(_)
join(parts) == IF Len(parts) = 0 THEN <<>>
               ELSE IF Len(parts) = 1 THEN parts[1]
               ELSE parts[1] \o <<" ">> \o join(Tail(parts))

\* ---------------------------------------------------- regular expressions
\* A pattern is a sequence of elements: [k |-> "d+"] (\d+), [k |-> "s*"] (\s*),
\* [k |-> "lit", c |-> token], [k |-> "alt", cs |-> set of tokens].

Dplus == [k |-> "d+"]
Sstar == [k |-> "s*"]
Lit(c) == [k |-> "lit", c |-> c]
Alt(cs) == [k |-> "alt", cs |-> cs]
LitStr(s) == [i \in DOMAIN s |-> Lit(s[i])]

\* the positions at which a match of pat[k..] that starts at text[i] can end
RECURSIVE Ends(_, _, _, _)
Ends(pat, k, text, i) ==
    IF k > Len(pat) THEN {i}
    ELSE LET e == pat[k] IN
      CASE e.k = "lit" ->
             IF i <= Len(text) /\ text[i] = e.c THEN Ends(pat, k + 1, text, i + 1) ELSE {}
        [] e.k = "alt" ->
             IF i <= Len(text) /\ text[i] \in e.cs THEN Ends(pat, k + 1, text, i + 1) ELSE {}
        [] e.k = "d+" ->
             UNION { Ends(pat, k + 1, text, j) :
                     j \in { j \in (i + 1)..(Len(text) + 1) :
                             \A m \in i..(j - 1) : IsDigit(text[m]) } }
        [] e.k = "s*" ->
             UNION { Ends(pat, k + 1, text, j) :
                     j \in { j \in i..(Len(text) + 1) :
                             \A m \in i..(j - 1) : text[m] = " " } }

\* the start positions of the matches of pat in text
Starts(pat, text) == { i \in 1..(Len(text) + 1) : Ends(pat, 1, text, i) # {} }

\* re.search(pat, text) is not None
search(pat, text) == Starts(pat, text) # {}

Min(S) == CHOOSE a \in S : \A b \in S : a <= b

\* r'(\d+)dong', and the group of re.search's (leftmost) match
DongPat == <<Dplus, Lit("dong")>>

DongGroup(text) ==
    LET i == Min(Starts(DongPat, text))
        e == CHOOSE e \in Ends(<<Dplus>>, 1, text, i) : e <= Len(text) /\ text[e] = "dong"
    IN SubSeq(text, i, e - 1)

\* r'\d+dong\s*\d+cheung' and r'\d+dong\s*(jiha|B)\s*\d+cheung'
GroundPrefix == <<Dplus, Lit("dong"), Sstar>>
GroundTail == <<Dplus, Lit("cheung")>>
GroundPat == GroundPrefix \o GroundTail
BasementPat == <<Dplus, Lit("dong"), Sstar, Alt({"jiha", "B"}), Sstar, Dplus, Lit("cheung")>>

\* rf'\d+dong\s*(jiha|B)\s*{floor_num}cheung'
BasementFloorPat(fnum) ==
    <<Dplus, Lit("dong"), Sstar, Alt({"jiha", "B"}), Sstar>>
        \o LitStr(str(fnum)) \o <<Lit("cheung")>>

\* group 1 of re.search(r'\d+dong\s*(\d+)cheung', text): the digits of the leftmost match
GroundGroup(text) ==
    LET i == Min(Starts(GroundPat, text))
        g == CHOOSE g \in Ends(GroundPrefix, 1, text, i) : Ends(GroundTail, 1, text, g) # {}
        e == CHOOSE e \in Ends(GroundTail, 1, text, g) : TRUE
    IN SubSeq(text, g, e - 2)

\* ------------------------------------------------------- section grouper

\* Python's None for current_dong (a section identifier is never empty)
NONE == <<>>

EmptyMap == [d \in {} |-> <<>>]

\* SetCurrent with the membership test left out: a repeated marker empties its section
SetCurrentReset(st, digits) ==
    LET d == digits \o <<"dong">>
    IN [current_dong |-> d,
        dong_data |-> [k \in (DOMAIN st.dong_data) \cup {d} |->
                          IF k = d THEN <<>> ELSE st.dong_data[k]]]

\* current_dong = f"{match.group(1)}dong"
\* if current_dong not in dong_data: dong_data[current_dong] = []
SetCurrent(st, digits) ==
    LET d == digits \o <<"dong">>
    IN [current_dong |-> d,
        dong_data |-> IF d \in DOMAIN st.dong_data THEN st.dong_data
                      ELSE st.dong_data @@ (d :> <<>>)]

\* if current_dong: dong_data[current_dong].append(row)
AppendRow(st, ref) ==
    IF st.current_dong # NONE
    THEN [st EXCEPT !.dong_data[st.current_dong] = Append(@, ref)]
    ELSE st

\* one iteration of group_by_dong's row loop: the marker is searched in ' '.join(row);
\* ref is what dong_data[current_dong].append(row) stores
group_by_dong_row(st, row, ref) ==
    LET text == join(row)
        st1 == IF search(DongPat, text) THEN SetCurrent(st, DongGroup(text)) ELSE st
    IN AppendRow(st1, ref)

\* group_data_by_dong's `for cell in row`: every matching cell sets current_dong
RECURSIVE scan_cells(_, _, _)
scan_cells(st, row, k) ==
    IF k > Len(row) THEN st
    ELSE scan_cells(IF search(DongPat, row[k]) THEN SetCurrent(st, DongGroup(row[k])) ELSE st,
                    row, k + 1)

\* one iteration of group_data_by_dong's row loop
group_data_by_dong_row(st, row, ref) == AppendRow(scan_cells(st, row, 1), ref)

\* ------------------------------------- make_excel_bytes: the tests on a row

\* a cell that is None (the padding pandas gives a short row)
PyNone == <<"None">>

\* ' '.join([str(cell) if cell is not None else '' for cell in row])
row_text(row) == join([k \in DOMAIN row |-> IF row[k] = PyNone THEN <<>> ELSE row[k]])

\* IsElevation with the rear elevation word left out
IsElevationFrontOnly(text) == Contains(text, "jeongmyeondo")

\* '<front elevation>' in row_text or '<rear elevation>' in row_text
IsElevation(text) == Contains(text, "jeongmyeondo") \/ Contains(text, "baemyeondo")

\* re.search(r'\d+dong\s*\d+cheung|\d+dong\s*(jiha|B)\s*\d+cheung', row_text)
IsBoundary(text) == search(GroundPat, text) \/ search(BasementPat, text)

\* exclude_keywords, as the program spells them: three of them hold blanks
exclude_keywords == { "burok", "oegwanjosamangdo", "chamjo", "beon ho", "bu   wi", "bu jae",
                      "pok", "mm", "giri", "gaeso", "EA" }

\* any(k in row_text for k in exclude_keywords)
IsExcluded(text) == \E k \in exclude_keywords : Contains(text, k)

\* IsEntry without the tests for the basement word and letter in the ground branch
IsEntryNoBasementTest(text, ftype, fnum) ==
    IF ftype = "jiha"
    THEN search(BasementFloorPat(fnum), text)
    ELSE search(GroundPat, text) /\ int(GroundGroup(text)) = fnum

\* IsEntry with the basement pattern of any floor number instead of floor_num
IsEntryAnyBasementFloor(text, ftype, fnum) ==
    IF ftype = "jiha"
    THEN search(BasementPat, text)
    ELSE /\ search(GroundPat, text)
         /\ ~Contains(text, "jiha")
         /\ ~Contains(text, "B")
         /\ int(GroundGroup(text)) = fnum

\* the boundary-entry test of the row loop, for either floor_type
IsEntry(text, ftype, fnum) ==
    IF ftype = "jiha"
    THEN search(BasementFloorPat(fnum), text)
    ELSE /\ search(GroundPat, text)
         /\ ~Contains(text, "jiha")
         /\ ~Contains(text, "B")
         /\ int(GroundGroup(text)) = fnum

\* ------------------------------------------ the inputs the model is run on

MaxStream == 3
MaxRows == 3
MaxSectionRows == 2
MaxFilterRows == 3

\* rows of the grouper: one or two cells
GRows == { <<<<"x">>>>, <<<<"1", "dong">>>>, <<<<"2", "dong", " ", "x">>>>,
           <<<<"x">>, <<"1", "dong">>>>,
           <<<<"1", "dong">>, <<"2", "dong", " ", "x">>>>,
           <<<<"2", "dong", " ", "x">>, <<"1", "dong">>>>,
           <<<<"1", "dong", " ", "2", "dong">>>>,
           <<<<"1", "2", "dong">>, <<"x">>>> }

\* rows of the row loop: ground and basement boundary rows of floors 1 and 2, a
\* data row, an elevation row, noise rows, and boundary rows that also carry a
\* noise word, the basement letter or an elevation word
SRows == { <<<<"1", "dong", "1", "cheung">>>>,
           <<<<"1", "dong", " ", "2", "cheung">>>>,
           <<<<"1", "dong", "B", "1", "cheung">>>>,
           <<<<"1", "dong", "jiha", " ", "2", "cheung">>>>,
           <<<<"x">>>>,
           <<<<"x", "jeongmyeondo">>>>,
           <<<<"x", "mm">>>>,
           <<<<"beonho">>>>,
           <<<<"1", "dong", "1", "cheung", "beon ho">>>>,
           <<<<"1", "dong", "1", "cheung", "B">>>>,
           <<<<"1", "dong", "1", "cheung", "baemyeondo">>>> }


\* rows of a section that is exported: one or two cells
ERows == { <<<<"1", "dong", "1", "cheung">>>>,
           <<<<"1", "dong", "2", "cheung">>, <<"x">>>>,
           <<<<"x">>>>,
           <<<<"oktap">>>>,
           <<<<"1", "dong", "B", "1", "cheung">>>>,
           <<<<"1", "dong", "1", "5", "cheung">>>> }

FloorTypes == {"jisang", "jiha"}

\* range_info of a floor range: ground 1..2, basement 1..1, ground 15..15, and 2..1
ERangeInfos == { [floor_type |-> "jisang", start_floor |-> 1, end_floor |-> 2],
                 [floor_type |-> "jiha", start_floor |-> 1, end_floor |-> 1],
                 [floor_type |-> "jisang", start_floor |-> 15, end_floor |-> 15],
                 [floor_type |-> "jisang", start_floor |-> 2, end_floor |-> 1] }

ENames == {"a", "b"}

\* rows of filter_by_floor_range, one cell each
FRows == { <<<<"x">>>>, <<<<"oktap">>>>, <<<<"jibung", " ", "x">>>>,
           <<<<"oktap", " ", "1", "5", "cheung">>>>,
           <<<<"1", "cheung">>>>, <<<<"1", "1", "cheung">>>> }

FRanges == { <<1, 1>>, <<1, 2>>, <<15, 15>>, <<15, 16>>, <<16, 15>> }

ModelFloors == {1, 2, 15}

Max(S) == CHOOSE a \in S : \A b \in S : a >= b

\* df.shape[1] of pd.DataFrame(rows)
Width(rows) == IF Len(rows) = 0 THEN 0 ELSE Max({ Len(rows[j]) : j \in DOMAIN rows })

Pad(row, w) == [k \in 1..w |-> IF k <= Len(row) THEN row[k] ELSE PyNone]

\* pd.DataFrame(rows).values.tolist(): every row padded with None to the widest
values_tolist(rows) == [j \in DOMAIN rows |-> Pad(rows[j], Width(rows))]

EWidth == Max({ Len(r) : r \in ERows })

\* the row texts the row loop can meet in this model
TextUniverse ==
    { row_text(r) : r \in SRows }
        \cup { row_text(Pad(p[1], p[2])) : p \in ERows \X (1..EWidth) }

\* the tests of the row loop on every text of the model (a constant table, which is
\* evaluated once)
TextTests ==
    [t \in TextUniverse |->
        [elevation |-> IsElevation(t), boundary |-> IsBoundary(t), excluded |-> IsExcluded(t)]]

EntryTests ==
    [t \in TextUniverse |-> { a \in FloorTypes \X ModelFloors : IsEntry(t, a[1], a[2]) }]

\* ------------------------------------- make_excel_bytes: the row loop

\* Branch with exclude_keywords tested after the boundary-entry test
BranchExcludeLate(text, ftype, fnum, cap, skip) ==
    IF TextTests[text].elevation THEN "elevation"
    ELSE IF skip /\ ~TextTests[text].boundary THEN "skipped"
    ELSE IF <<ftype, fnum>> \in EntryTests[text] THEN "enter"
    ELSE IF TextTests[text].excluded THEN "excluded"
    ELSE IF cap /\ TextTests[text].boundary THEN "break"
    ELSE IF cap THEN "capture"
    ELSE "pass"

\* which way one iteration of `for row in all_rows` goes, the tests in program order:
\* elevation word; skip_section (cleared by a boundary row); exclude_keywords;
\* boundary entry for floor_num; boundary exit while capturing; capture
Branch(text, ftype, fnum, cap, skip) ==
    IF TextTests[text].elevation THEN "elevation"
    ELSE IF skip /\ ~TextTests[text].boundary THEN "skipped"
    ELSE IF TextTests[text].excluded THEN "excluded"
    ELSE IF <<ftype, fnum>> \in EntryTests[text] THEN "enter"
    ELSE IF cap /\ TextTests[text].boundary THEN "break"
    ELSE IF cap THEN "capture"
    ELSE "pass"

\* one iteration: st = [capturing, skip_section, floor_rows, brk]; ref is what
\* floor_rows.append(row) stores
scan_row(st, row, ref, ftype, fnum) ==
    LET text == row_text(row)
        b == Branch(text, ftype, fnum, st.capturing, st.skip_section)
    IN [capturing |-> (st.capturing \/ b = "enter"),
        skip_section |-> IF b = "elevation" THEN TRUE
                         ELSE IF TextTests[text].boundary THEN FALSE
                         ELSE st.skip_section,
        floor_rows |-> IF b \in {"enter", "capture"} THEN Append(st.floor_rows, ref)
                       ELSE st.floor_rows,
        brk |-> (b = "break")]

\* floor_rows = []; capturing = False; skip_section = False
ScanStart == [capturing |-> FALSE, skip_section |-> FALSE, floor_rows |-> <<>>, brk |-> FALSE]

\* the whole `for row in all_rows` of one floor_num: the rows it captures
RECURSIVE scan_from(_, _, _, _, _)
scan_from(st, rows, i, ftype, fnum) ==
    IF i > Len(rows) \/ st.brk THEN st.floor_rows
    ELSE scan_from(scan_row(st, rows[i], rows[i], ftype, fnum), rows, i + 1, ftype, fnum)

scan_floor(rows, ftype, fnum) == scan_from(ScanStart, rows, 1, ftype, fnum)

\* title_row without the empty cells
title_row_short(name, w) == <<<<"[", " ", name, " ", "]">>>>

\* [f"[ {floor_name} ]"] + [''] * (df.shape[1] - 1)
title_row(name, w) == <<<<"[", " ", name, " ", "]">>>> \o [k \in 1..(w - 1) |-> <<>>]

\* -------------------------------------------------- filter_by_floor_range

\* the end floor from which rooftop and roof rows are added
RooftopFloor == 15

\* ' '.join([str(cell) for cell in row if cell])
RECURSIVE truthy_cells(_)
truthy_cells(row) ==
    IF Len(row) = 0 THEN <<>>
    ELSE IF row[1] = PyNone \/ row[1] = <<>> THEN truthy_cells(Tail(row))
    ELSE <<row[1]>> \o truthy_cells(Tail(row))

filter_text(row) == join(truthy_cells(row))

\* f"{floor_num}cheung" in row_text or f"[ {floor_num}cheung" in row_text
NamesFloor(text, n) ==
    \/ HasSub(text, str(n) \o <<"cheung">>)
    \/ HasSub(text, <<"[", " ">> \o str(n) \o <<"cheung">>)

\* the `for floor_num in range(start_floor, end_floor + 1)` loop finds a floor
InRange(text, first, last) == \E n \in first..last : NamesFloor(text, n)

\* any(kw in row_text for kw in [rooftop, roof])
IsRooftop(text) == Contains(text, "oktap") \/ Contains(text, "jibung")

\* one iteration of `for row in rows` of filter_by_floor_range (and of the row loop
\* of split_by_floor_ranges, which is the same code on row.tolist())
filter_row(filtered, row, first, last) ==
    LET text == filter_text(row)
        f1 == IF InRange(text, first, last) THEN Append(filtered, row) ELSE filtered
    IN IF last >= RooftopFloor /\ IsRooftop(text) /\ ~(\E k \in DOMAIN f1 : f1[k] = row)
       THEN Append(f1, row)
       ELSE f1

\* ------------------------------------------------- packages and the session

\* the number of content entries (Contents/section*) of a package
MaxEntries == 2

\* st.session_state.dong_data: None (hwpx_analyzer_app.py before the first
\* analysis) or a dict
NoDict == [is_none |-> TRUE, items |-> EmptyMap]

Dict(map) == [is_none |-> FALSE, items |-> map]

\* a content entry: the tables ET.parse finds in it, or one ET.parse raises on
Malformed == [ok |-> FALSE, tables |-> <<>>]

Entry(tables) == [ok |-> TRUE, tables |-> tables]

\* content entries: malformed; one table with a marker row for section 1 and a
\* data row; one table with a marker row for section 2; one table without markers
UEntries ==
    { Malformed,
      Entry(<< << <<<<"1", "dong">>>>, <<<<"x">>>> >> >>),
      Entry(<< << <<<<"2", "dong", " ", "x">>>> >> >>),
      Entry(<< << <<<<"x">>>> >>, <<>> >>) }

UPackages == UNION { [1..n -> UEntries] : n \in 0..MaxEntries }

\* `if table_data: all_tables.append(table_data)` for the tables of one entry
RECURSIVE append_tables(_, _)
append_tables(acc, tables) ==
    IF Len(tables) = 0 THEN acc
    ELSE append_tables(IF Len(tables[1]) > 0 THEN Append(acc, tables[1]) ELSE acc,
                       Tail(tables))

\* the loop over the content entries from entry k on: the tables gathered, and
\* whether ET.parse raised (the loop is left at the first entry that raises)
RECURSIVE parse_entries(_, _, _)
parse_entries(package, k, acc) ==
    IF k > Len(package) THEN [tables |-> acc, raised |-> FALSE]
    ELSE IF ~package[k].ok THEN [tables |-> acc, raised |-> TRUE]
    ELSE parse_entries(package, k + 1, append_tables(acc, package[k].tables))

\* the rows of the tables, in document order
RECURSIVE table_rows(_)
table_rows(tables) ==
    IF Len(tables) = 0 THEN <<>> ELSE tables[1] \o table_rows(Tail(tables))

RECURSIVE group_rows(_, _, _, _)
group_rows(variant, st, rows, k) ==
    IF k > Len(rows) THEN st
    ELSE group_rows(variant,
                    IF variant = "app" THEN group_by_dong_row(st, rows[k], rows[k])
                    ELSE group_data_by_dong_row(st, rows[k], rows[k]),
                    rows, k + 1)

GroupStart == [current_dong |-> NONE, dong_data |-> EmptyMap]

\* hwpx_app.py group_by_dong(all_tables)
group_by_dong(all_tables) ==
    group_rows("app", GroupStart, table_rows(all_tables), 1).dong_data

\* hwpx_analyzer_app.py group_data_by_dong(tables_data)
group_data_by_dong(tables_data) ==
    group_rows("analyzer", GroupStart, table_rows(tables_data), 1).dong_data

\* ET.parse raises on some content entry of the package
Raises(package) == parse_entries(package, 1, <<>>).raised

\* the script run of hwpx_app.py on the file in the uploader, lines 95-103: the
\* section map the run leaves in the session (the old one when ET.parse raises)
run_upload(package, old) ==
    IF Raises(package) THEN old
    ELSE Dict(group_by_dong(parse_entries(package, 1, <<>>).tables))

\* the names and range_infos of the add form
UNames == {"a", "b"}

URangeInfos == { [floor_type |-> "jisang", start_floor |-> 1, end_floor |-> 1] }

\* position of floor_name in an insertion-ordered dict, 0 when it is no key
KeyPos(items, name) ==
    IF \E k \in DOMAIN items : items[k].name = name
    THEN CHOOSE k \in DOMAIN items : items[k].name = name
    ELSE 0

\* d[floor_name] = range_info: a new key goes last, an old key keeps its place
DictSet(items, name, info) ==
    IF KeyPos(items, name) = 0 THEN Append(items, [name |-> name, info |-> info])
    ELSE [items EXCEPT ![KeyPos(items, name)].info = info]

\* del d[floor_name]
DictDel(items, name) ==
    [k \in 1..(Len(items) - 1) |-> IF k < KeyPos(items, name) THEN items[k] ELSE items[k + 1]]

\* if selected_dong not in floor_ranges: floor_ranges[selected_dong] = {}
\* floor_ranges[selected_dong][floor_name] = {...}
add_floor(ranges, dong, name, info) ==
    LET old == IF dong \in DOMAIN ranges THEN ranges[dong] ELSE <<>>
    IN [d \in (DOMAIN ranges) \cup {dong} |->
           IF d = dong THEN DictSet(old, name, info) ELSE ranges[d]]

\* the length of a sheet name: dong_name[:31]
SheetNameMax == 31

\* int(re.search(r'\d+', x).group()) of a section identifier, the sort key
SortKey(dong) == int(SubSeq(dong, 1, Len(dong) - 1))

\* sorted(dong_data.keys(), key=...): the identifiers of the model have distinct keys
RECURSIVE sorted_keys(_)
sorted_keys(keys) ==
    IF keys = {} THEN <<>>
    ELSE LET first == CHOOSE d \in keys : \A o \in keys : SortKey(d) <= SortKey(o)
         IN <<first>> \o sorted_keys(keys \ {first})

\* make_excel_bytes: the names of the sheets written, in the order they are written;
\* a section is written only `if dong_name in st.session_state.floor_ranges`
RECURSIVE sheets_of(_, _)
sheets_of(dongs, ranges) ==
    IF Len(dongs) = 0 THEN <<>>
    ELSE (IF dongs[1] \in DOMAIN ranges
          THEN <<SubSeq(dongs[1], 1, Min({SheetNameMax, Len(dongs[1])}))>>
          ELSE <<>>) \o sheets_of(Tail(dongs), ranges)

sheet_names(sections, ranges) == sheets_of(sorted_keys(DOMAIN sections), ranges)

\* ------------------------------------------------- split_by_floor_ranges

\* the number of rows of a sheet
MaxSheetRows == 2

\* a cell that pd.read_excel found empty
NaN == <<"nan">>

\* rows of a sheet two cells wide: a data row, rooftop and roof rows, floor rows
PRows == { << <<"x">>, NaN >>,
           << <<"oktap">>, <<"x">> >>,
           << <<"1", "cheung">>, NaN >>,
           << <<"1", "5", "cheung">>, <<"jibung">> >> }

\* range_info of the configuration file: 1..1, 15..15, and the reversed 16..15, 2..1
PRangeInfos == { [start_floor |-> 1, end_floor |-> 1],
                 [start_floor |-> 15, end_floor |-> 15],
                 [start_floor |-> 16, end_floor |-> 15],
                 [start_floor |-> 2, end_floor |-> 1] }

PRangeLists ==
    UNION { { s \in [1..n -> [name : ENames, info : PRangeInfos]] :
                \A a, b \in 1..n : a # b => s[a].name # s[b].name } :
            n \in 1..Cardinality(ENames) }

\* ' '.join([str(cell) for cell in row if pd.notna(cell)])
RECURSIVE notna_cells(_)
notna_cells(row) ==
    IF Len(row) = 0 THEN <<>>
    ELSE IF row[1] = NaN THEN notna_cells(Tail(row))
    ELSE <<row[1]>> \o notna_cells(Tail(row))

split_text(row) == join(notna_cells(row))

\* one iteration of `for idx, row in df.iterrows()` (split_by_floor.py:60-76)
split_row(rows, row, first, last) ==
    LET text == split_text(row)
        r1 == IF InRange(text, first, last) THEN Append(rows, row) ELSE rows
    IN IF last >= RooftopFloor /\ IsRooftop(text) /\ ~(\E k \in DOMAIN r1 : r1[k] = row)
       THEN Append(r1, row)
       ELSE r1

\* the row loop of one floor range
RECURSIVE split_rows(_, _, _, _, _)
split_rows(acc, rows, i, first, last) ==
    IF i > Len(rows) THEN acc
    ELSE split_rows(split_row(acc, rows[i], first, last), rows, i + 1, first, last)

\* empty_row = [''] * df.shape[1]
empty_row(w) == [c \in 1..w |-> <<>>]

\* ------------------------------------------------- tag lookup

\* the number of descendants with one tag, unqualified or qualified
MaxElements == 2

LProgs == {"app", "analyzer", "by_dong"}

LTags == {"tbl", "tr", "tc", "t"}

\* the descendants of an element with one tag, named in document order
PlainLists == { [k \in 1..n |-> <<"plain", k>>] : n \in 0..MaxElements }

QualifiedLists == { [k \in 1..n |-> <<"hwp", k>>] : n \in 0..MaxElements }

\* hwpx_app.py find_elements, used for every tag
find_elements(plain, qualified) == IF plain = <<>> THEN qualified ELSE plain

\* hwpx_analyzer_app.py: tbl, tr and tc are looked up unqualified first;
\* extract_text_from_element loops over the unqualified and then over the qualified t
analyzer_lookup(tag, plain, qualified) ==
    IF tag = "t" THEN plain \o qualified
    ELSE IF plain = <<>> THEN qualified ELSE plain

\* hwpx_to_excel_by_dong.py: tbl is looked up qualified first; tr, tc and t are as in
\* hwpx_analyzer_app.py
by_dong_lookup(tag, plain, qualified) ==
    IF tag = "tbl" THEN (IF qualified = <<>> THEN plain ELSE qualified)
    ELSE IF tag = "t" THEN plain \o qualified
    ELSE IF plain = <<>> THEN qualified ELSE plain

\* ------------------------------------------------------ specifications
\* Each specification runs one part of the program; the variables of the other
\* parts stay as they are.

GIdle ==
    /\ g_variant = "idle"
    /\ g_rows = <<>>
    /\ g_i = 1
    /\ current_dong = NONE
    /\ dong_data = EmptyMap

SIdle ==
    /\ all_rows = <<>>
    /\ floor_type = "jisang"
    /\ floor_num = 0
    /\ s_i = 1
    /\ s_pc = "idle"
    /\ capturing = FALSE
    /\ skip_section = FALSE
    /\ floor_rows = <<>>

EIdle ==
    /\ e_rows = <<>>
    /\ e_ranges = <<>>
    /\ e_k = 1
    /\ e_f = 0
    /\ e_pc = "idle"
    /\ combined_data = <<>>

FIdle ==
    /\ f_rows = <<>>
    /\ start_floor = 0
    /\ end_floor = 0
    /\ f_i = 1
    /\ filtered_rows = <<>>

UIdle ==
    /\ u_app = "idle"
    /\ uploaded_file = <<>>
    /\ last_action = "none"
    /\ session_dong_data = NoDict
    /\ session_floor_ranges = EmptyMap

PIdle ==
    /\ p_rows = <<>>
    /\ p_ranges = <<>>
    /\ p_k = 1
    /\ p_pc = "idle"
    /\ p_combined = <<>>

LIdle ==
    /\ l_prog = "idle"
    /\ l_tag = "tbl"
    /\ l_plain = <<>>
    /\ l_qualified = <<>>
    /\ l_pc = "idle"
    /\ l_found = <<>>

\* ---- the section grouper, run on every stream of up to MaxStream rows

GStreams == UNION { [1..n -> GRows] : n \in 0..MaxStream }

GInit ==
    /\ SIdle /\ EIdle /\ FIdle /\ UIdle /\ PIdle /\ LIdle
    /\ g_variant \in {"app", "analyzer"}
    /\ g_rows \in GStreams
    /\ g_i = 1
    /\ current_dong = NONE
    /\ dong_data = EmptyMap

GState == [current_dong |-> current_dong, dong_data |-> dong_data]

\* hwpx_app.py group_by_dong: one row of `for table in all_tables: for row in table`
GroupByDongStep ==
    /\ g_variant = "app"
    /\ g_i <= Len(g_rows)
    /\ \E st \in {group_by_dong_row(GState, g_rows[g_i], g_i)} :
          /\ current_dong' = st.current_dong
          /\ dong_data' = st.dong_data
    /\ g_i' = g_i + 1
    /\ UNCHANGED <<g_variant, g_rows, s_vars, e_vars, f_vars, u_vars, p_vars, l_vars>>

\* hwpx_analyzer_app.py / hwpx_to_excel_by_dong.py group_data_by_dong: one row
GroupDataByDongStep ==
    /\ g_variant = "analyzer"
    /\ g_i <= Len(g_rows)
    /\ \E st \in {group_data_by_dong_row(GState, g_rows[g_i], g_i)} :
          /\ current_dong' = st.current_dong
          /\ dong_data' = st.dong_data
    /\ g_i' = g_i + 1
    /\ UNCHANGED <<g_variant, g_rows, s_vars, e_vars, f_vars, u_vars, p_vars, l_vars>>

GNext == GroupByDongStep \/ GroupDataByDongStep

SpecGroup == GInit /\ [][GNext]_vars

\* ---- the row loop of make_excel_bytes, run for one floor_type and floor_num on
\* ---- every section of up to MaxRows rows

SInit ==
    /\ GIdle /\ EIdle /\ FIdle /\ UIdle /\ PIdle /\ LIdle
    /\ all_rows \in UNION { [1..n -> SRows] : n \in 1..MaxRows }
    /\ floor_type \in FloorTypes
    /\ floor_num \in {1, 2}
    /\ s_i = 1
    /\ s_pc = "scan"
    /\ capturing = FALSE
    /\ skip_section = FALSE
    /\ floor_rows = <<>>

SState == [capturing |-> capturing, skip_section |-> skip_section,
           floor_rows |-> floor_rows, brk |-> FALSE]

\* one iteration of `for row in all_rows`, for row s_i
ScanStep ==
    /\ s_pc = "scan"
    /\ s_i <= Len(all_rows)
    /\ \E st \in {scan_row(SState, all_rows[s_i], s_i, floor_type, floor_num)} :
          /\ capturing' = st.capturing
          /\ skip_section' = st.skip_section
          /\ floor_rows' = st.floor_rows
          /\ s_pc' = IF st.brk THEN "break" ELSE "scan"
          /\ s_i' = IF st.brk THEN s_i ELSE s_i + 1
    /\ UNCHANGED <<all_rows, floor_type, floor_num, g_vars, e_vars, f_vars, u_vars, p_vars, l_vars>>

\* `for row in all_rows` runs out of rows
ScanEnd ==
    /\ s_pc = "scan"
    /\ s_i > Len(all_rows)
    /\ s_pc' = "end"
    /\ UNCHANGED <<all_rows, floor_type, floor_num, s_i, capturing, skip_section, floor_rows>>
    /\ UNCHANGED <<g_vars, e_vars, f_vars, u_vars, p_vars, l_vars>>

SNext == ScanStep \/ ScanEnd

SpecScan == SInit /\ [][SNext]_vars

\* ---- make_excel_bytes for one section that has an entry in floor_ranges

\* floor_ranges[dong_name].items(): up to one item per name, in any insertion order
ERangeLists ==
    UNION { { s \in [1..n -> [name : ENames, info : ERangeInfos]] :
                \A a, b \in 1..n : a # b => s[a].name # s[b].name } :
            n \in 0..Cardinality(ENames) }

EInit ==
    /\ GIdle /\ SIdle /\ FIdle /\ UIdle /\ PIdle /\ LIdle
    /\ e_rows \in UNION { [1..n -> ERows] : n \in 1..MaxSectionRows }
    /\ e_ranges \in ERangeLists
    /\ e_k = 1
    /\ e_f = 0
    /\ e_pc = "title"
    /\ combined_data = <<>>

\* title_row = ...; combined_data.append(title_row); all_rows = df.values.tolist()
ExportTitle ==
    /\ e_pc = "title"
    /\ e_k <= Len(e_ranges)
    /\ combined_data' = Append(combined_data, title_row(e_ranges[e_k].name, Width(e_rows)))
    /\ e_f' = e_ranges[e_k].info.start_floor
    /\ e_pc' = "floors"
    /\ UNCHANGED <<e_rows, e_ranges, e_k, g_vars, s_vars, f_vars, u_vars, p_vars, l_vars>>

\* one floor_num of range(start_floor, end_floor + 1): the row loop, then
\* `if floor_rows: combined_data.extend(floor_rows)`
ExportFloor ==
    /\ e_pc = "floors"
    /\ e_f <= e_ranges[e_k].info.end_floor
    /\ combined_data' = combined_data
           \o scan_floor(values_tolist(e_rows), e_ranges[e_k].info.floor_type, e_f)
    /\ e_f' = e_f + 1
    /\ UNCHANGED <<e_rows, e_ranges, e_k, e_pc, g_vars, s_vars, f_vars, u_vars, p_vars, l_vars>>

\* range(start_floor, end_floor + 1) is used up: the next item of floor_ranges
ExportNextRange ==
    /\ e_pc = "floors"
    /\ e_f > e_ranges[e_k].info.end_floor
    /\ e_k' = e_k + 1
    /\ e_pc' = "title"
    /\ UNCHANGED <<e_rows, e_ranges, e_f, combined_data>>
    /\ UNCHANGED <<g_vars, s_vars, f_vars, u_vars, p_vars, l_vars>>

\* the items are used up: combined_df.to_excel(...)
ExportWrite ==
    /\ e_pc = "title"
    /\ e_k > Len(e_ranges)
    /\ e_pc' = "done"
    /\ UNCHANGED <<e_rows, e_ranges, e_k, e_f, combined_data>>
    /\ UNCHANGED <<g_vars, s_vars, f_vars, u_vars, p_vars, l_vars>>

ENext == ExportTitle \/ ExportFloor \/ ExportNextRange \/ ExportWrite

SpecExport == EInit /\ [][ENext]_vars

\* ---- filter_by_floor_range, run on every list of up to MaxFilterRows rows

FInit ==
    /\ GIdle /\ SIdle /\ EIdle /\ UIdle /\ PIdle /\ LIdle
    /\ f_rows \in UNION { [1..n -> FRows] : n \in 0..MaxFilterRows }
    /\ \E r \in FRanges : start_floor = r[1] /\ end_floor = r[2]
    /\ f_i = 1
    /\ filtered_rows = <<>>

\* one iteration of `for row in rows`
FilterStep ==
    /\ f_i <= Len(f_rows)
    /\ filtered_rows' = filter_row(filtered_rows, f_rows[f_i], start_floor, end_floor)
    /\ f_i' = f_i + 1
    /\ UNCHANGED <<f_rows, start_floor, end_floor, g_vars, s_vars, e_vars, u_vars, p_vars, l_vars>>

FNext == FilterStep

SpecFilter == FInit /\ [][FNext]_vars

\* ---- the session of one of the two web programs, over any sequence of packages

UInit ==
    /\ GIdle /\ SIdle /\ EIdle /\ FIdle /\ PIdle /\ LIdle
    /\ u_app \in {"app", "analyzer"}
    /\ uploaded_file = <<>>
    /\ last_action = "none"
    /\ session_dong_data = IF u_app = "app" THEN Dict(EmptyMap) ELSE NoDict
    /\ session_floor_ranges = EmptyMap

\* hwpx_app.py, `if uploaded_file:`: extract_tables_from_hwpx has no handler, so an
\* entry that does not parse ends the script run before dong_data is assigned
Upload ==
    /\ u_app = "app"
    /\ \E package \in UPackages :
          /\ uploaded_file' = package
          /\ \E r \in {parse_entries(package, 1, <<>>)} :
                session_dong_data' = IF r.raised THEN session_dong_data
                                     ELSE Dict(group_by_dong(r.tables))
    /\ last_action' = "upload"
    /\ UNCHANGED <<u_app, session_floor_ranges, g_vars, s_vars, e_vars, f_vars, p_vars, l_vars>>

\* hwpx_analyzer_app.py, the analyse button: extract_tables_from_hwpx catches the
\* exception, reports it and returns the tables gathered so far, which main groups
\* and stores
Analyse ==
    /\ u_app = "analyzer"
    /\ \E package \in UPackages :
          /\ uploaded_file' = package
          /\ \E r \in {parse_entries(package, 1, <<>>)} :
                session_dong_data' = Dict(group_data_by_dong(r.tables))
    /\ last_action' = "analyse"
    /\ UNCHANGED <<u_app, session_floor_ranges, g_vars, s_vars, e_vars, f_vars, p_vars, l_vars>>

\* the form and the buttons below the uploader are drawn by a script run that got
\* past extract_tables_from_hwpx
Drawn == u_app = "app" /\ ~Raises(uploaded_file)

\* hwpx_app.py, the add form (lines 141-152) for a section of the selectbox, which
\* lists the keys of this run's dong_data; st.rerun() runs the script again on the
\* file in the uploader
AddBand ==
    /\ Drawn
    /\ \E selected_dong \in DOMAIN session_dong_data.items, floor_name \in UNames,
          range_info \in URangeInfos :
          session_floor_ranges' =
              add_floor(session_floor_ranges, selected_dong, floor_name, range_info)
    /\ session_dong_data' = run_upload(uploaded_file, session_dong_data)
    /\ last_action' = "add"
    /\ UNCHANGED <<u_app, uploaded_file, g_vars, s_vars, e_vars, f_vars, p_vars, l_vars>>

\* hwpx_app.py, the delete button of a listed floor range (lines 164-166)
DeleteBand ==
    /\ Drawn
    /\ \E selected_dong \in (DOMAIN session_dong_data.items) \cap (DOMAIN session_floor_ranges) :
          \E k \in DOMAIN session_floor_ranges[selected_dong] :
              session_floor_ranges' =
                  [session_floor_ranges EXCEPT
                      ![selected_dong] = DictDel(@, session_floor_ranges[selected_dong][k].name)]
    /\ session_dong_data' = run_upload(uploaded_file, session_dong_data)
    /\ last_action' = "delete"
    /\ UNCHANGED <<u_app, uploaded_file, g_vars, s_vars, e_vars, f_vars, p_vars, l_vars>>

\* hwpx_app.py, the clear button of the sidebar (lines 307-310): both maps are
\* emptied, and st.rerun() runs the script again on the file in the uploader
Clear ==
    /\ Drawn
    /\ session_floor_ranges' = EmptyMap
    /\ session_dong_data' = run_upload(uploaded_file, Dict(EmptyMap))
    /\ last_action' = "clear"
    /\ UNCHANGED <<u_app, uploaded_file, g_vars, s_vars, e_vars, f_vars, p_vars, l_vars>>

UNext == Upload \/ Analyse \/ AddBand \/ DeleteBand \/ Clear

SpecSession == UInit /\ [][UNext]_vars

\* ---- split_by_floor_ranges for one sheet that has a configuration

PInit ==
    /\ GIdle /\ SIdle /\ EIdle /\ FIdle /\ UIdle /\ LIdle
    /\ p_rows \in UNION { [1..n -> PRows] : n \in 1..MaxSheetRows }
    /\ p_ranges \in PRangeLists
    /\ p_k = 1
    /\ p_pc = "band"
    /\ p_combined = <<>>

\* one item of floors.items(): the title row, the rows of the floor range (when
\* there are any), and the blank row
SplitBand ==
    /\ p_pc = "band"
    /\ p_k <= Len(p_ranges)
    /\ p_combined' =
          Append(p_combined, title_row(p_ranges[p_k].name, Width(p_rows)))
             \o split_rows(<<>>, p_rows, 1, p_ranges[p_k].info.start_floor,
                           p_ranges[p_k].info.end_floor)
             \o <<empty_row(Width(p_rows))>>
    /\ p_k' = p_k + 1
    /\ UNCHANGED <<p_rows, p_ranges, p_pc, g_vars, s_vars, e_vars, f_vars, u_vars, l_vars>>

\* the items are used up: combined_df.to_excel(...)
SplitWrite ==
    /\ p_pc = "band"
    /\ p_k > Len(p_ranges)
    /\ p_pc' = "done"
    /\ UNCHANGED <<p_rows, p_ranges, p_k, p_combined>>
    /\ UNCHANGED <<g_vars, s_vars, e_vars, f_vars, u_vars, l_vars>>

PNext == SplitBand \/ SplitWrite

SpecSplit == PInit /\ [][PNext]_vars

\* ---- one tag lookup, for every extractor, tag and element

LInit ==
    /\ GIdle /\ SIdle /\ EIdle /\ FIdle /\ UIdle /\ PIdle
    /\ l_prog \in LProgs
    /\ l_tag \in LTags
    /\ l_plain \in PlainLists
    /\ l_qualified \in QualifiedLists
    /\ l_pc = "call"
    /\ l_found = <<>>

FindElements ==
    /\ l_prog = "app"
    /\ l_pc = "call"
    /\ l_found' = find_elements(l_plain, l_qualified)
    /\ l_pc' = "done"
    /\ UNCHANGED <<l_prog, l_tag, l_plain, l_qualified>>
    /\ UNCHANGED <<g_vars, s_vars, e_vars, f_vars, u_vars, p_vars>>

AnalyzerLookup ==
    /\ l_prog = "analyzer"
    /\ l_pc = "call"
    /\ l_found' = analyzer_lookup(l_tag, l_plain, l_qualified)
    /\ l_pc' = "done"
    /\ UNCHANGED <<l_prog, l_tag, l_plain, l_qualified>>
    /\ UNCHANGED <<g_vars, s_vars, e_vars, f_vars, u_vars, p_vars>>

ByDongLookup ==
    /\ l_prog = "by_dong"
    /\ l_pc = "call"
    /\ l_found' = by_dong_lookup(l_tag, l_plain, l_qualified)
    /\ l_pc' = "done"
    /\ UNCHANGED <<l_prog, l_tag, l_plain, l_qualified>>
    /\ UNCHANGED <<g_vars, s_vars, e_vars, f_vars, u_vars, p_vars>>

LNext == FindElements \/ AnalyzerLookup \/ ByDongLookup

SpecLookup == LInit /\ [][LNext]_vars

\* ---- properties of the section grouper

\* the section identifiers named anywhere in a text: each maximal digit run
\* that is directly followed by the section suffix, with the suffix
MarkerIds(text) ==
    { SubSeq(text, i, e) : <<i, e>> \in
        { p \in (DOMAIN text) \X (DOMAIN text) :
            /\ p[1] < p[2]
            /\ text[p[2]] = "dong"
            /\ \A m \in p[1]..(p[2] - 1) : IsDigit(text[m])
            /\ (p[1] = 1 \/ ~IsDigit(text[p[1] - 1])) } }

IsMarkerRow(row) == MarkerIds(join(row)) # {}

\* how many times stream position j stands in the section lists
Occurrences(j) ==
    Cardinality({ p \in UNION { {d} \X DOMAIN dong_data[d] : d \in DOMAIN dong_data } :
                    dong_data[p[1]][p[2]] = j })

\* C1: every processed row at or after the first marker row stands in exactly one
\* section list, exactly once, and that section is named by a marker of the most
\* recent marker row at or before it; rows before the first marker row stand in no
\* section; every section list is in stream order.
C1_GroupedUnderLatestMarker ==
    LET done == g_i - 1
        markerRows == { m \in 1..done : IsMarkerRow(g_rows[m]) }
    IN /\ \A j \in 1..done :
            LET prev == { m \in markerRows : m <= j }
            IN IF prev = {} THEN Occurrences(j) = 0
               ELSE /\ Occurrences(j) = 1
                    /\ \E d \in MarkerIds(join(g_rows[Max(prev)])) :
                          /\ d \in DOMAIN dong_data
                          /\ \E k \in DOMAIN dong_data[d] : dong_data[d][k] = j
       /\ \A d \in DOMAIN dong_data :
            /\ \A k \in DOMAIN dong_data[d] : dong_data[d][k] \in 1..done
            /\ \A k \in 1..(Len(dong_data[d]) - 1) : dong_data[d][k] < dong_data[d][k + 1]

\* a finished run with a row before the first marker, and a section that was left
\* and selected again
C1_Witness ==
    /\ g_i > Len(g_rows)
    /\ Len(g_rows) = 3
    /\ ~IsMarkerRow(g_rows[1])
    /\ IsMarkerRow(g_rows[2])
    /\ \E d \in DOMAIN dong_data : Len(dong_data[d]) = 2

\* the cells of a row that carry a marker, and the section the first of them names
MarkerCells(row) == { k \in DOMAIN row : search(DongPat, row[k]) }

FirstCellId(row) == DongGroup(row[Min(MarkerCells(row))]) \o <<"dong">>

SeveralMarkers(row) ==
    \E k1, k2 \in MarkerCells(row) :
        DongGroup(row[k1]) # DongGroup(row[k2])

\* C8: a processed row whose cells name different sections is appended to the
\* section named by the first matching cell, which is the current section after it.
C8_FirstMatchingCellWins ==
    \A j \in 1..(g_i - 1) :
        SeveralMarkers(g_rows[j]) =>
            /\ FirstCellId(g_rows[j]) \in DOMAIN dong_data
            /\ \E k \in DOMAIN dong_data[FirstCellId(g_rows[j])] :
                  dong_data[FirstCellId(g_rows[j])][k] = j
            /\ (j = g_i - 1 => current_dong = FirstCellId(g_rows[j]))


\* ---- properties of the row loop of make_excel_bytes
\* The words of the properties, stated on a row text apart from the program's tests and
\* tabulated over the texts of the model.

\* the elevation words
HasElevationWord(text) == Contains(text, "jeongmyeondo") \/ Contains(text, "baemyeondo")

\* the noise words as the specification lists them
ListedNoiseWords == { "beonho", "buwi", "bujae", "pok", "mm", "giri", "gaeso", "EA",
                      "burok", "oegwanjosamangdo", "chamjo" }

\* the noise words as the program spells them: number, part and member with blanks
SpelledNoiseWords == { "beon ho", "bu   wi", "bu jae", "pok", "mm", "giri", "gaeso", "EA",
                       "burok", "oegwanjosamangdo", "chamjo" }

\* the text matches the ground-style or the basement-style floor-boundary pattern
MatchesBoundary(text) == search(GroundPat, text) \/ search(BasementPat, text)

\* the text matches the ground-style pattern with floor number f (the leftmost match)
\* and holds neither the basement word nor the basement letter
GroundBoundaryFor(text, f) ==
    /\ search(GroundPat, text)
    /\ int(GroundGroup(text)) = f
    /\ ~Contains(text, "jiha")
    /\ ~Contains(text, "B")

\* the text matches the basement-style pattern with floor number f
BasementBoundaryFor(text, f) == search(BasementFloorPat(f), text)

RowWords ==
    [t \in TextUniverse |->
        [elevation |-> HasElevationWord(t),
         listed |-> (\E k \in ListedNoiseWords : Contains(t, k)),
         spelled |-> (\E k \in SpelledNoiseWords : Contains(t, k)),
         boundary |-> MatchesBoundary(t),
         ground |-> { f \in ModelFloors : GroundBoundaryFor(t, f) },
         basement |-> { f \in ModelFloors : BasementBoundaryFor(t, f) }]]

T(j) == row_text(all_rows[j])

Captured(j) == \E k \in DOMAIN floor_rows : floor_rows[k] = j

\* the rows that enter capture for floor_num, for either kind of band: boundary rows
\* for floor_num with neither an elevation word nor a noise word (a boundary row
\* that is not an elevation row is never in a skip section: it ends the section)
EntryRows ==
    { j \in DOMAIN all_rows :
        \E w \in {RowWords[T(j)]} :
            /\ floor_num \in (IF floor_type = "jiha" THEN w.basement ELSE w.ground)
            /\ ~w.elevation
            /\ ~w.spelled }

\* the rows after the first row of `entries` that are boundary rows but no entry rows
ExitRowsOf(entries) ==
    { j \in DOMAIN all_rows :
        /\ \E e \in entries : e < j
        /\ j \notin entries
        /\ \E w \in {RowWords[T(j)]} : w.boundary /\ ~w.elevation /\ ~w.spelled }

ExitRows == ExitRowsOf(EntryRows)

\* C2: ground band.  The first row that has no elevation word and no noise word,
\* matches the ground-style pattern with floor number floor_num and holds neither
\* the basement word nor the basement letter is captured once the loop is past it;
\* and no row at or after the next boundary row (the first later row without
\* elevation or noise word that matches a boundary pattern and is no such entry
\* row) is captured.
C2_GroundEntryCapturedUntilBoundary ==
    (floor_type = "jisang" /\ s_pc # "idle") =>
        \A entries \in {EntryRows} : entries # {} =>
            \A first \in {Min(entries)} :
                /\ (s_i > first => Captured(first))
                /\ \A exits \in {ExitRowsOf(entries)} : exits # {} =>
                      \A last \in {Min(exits)} :
                          \A k \in DOMAIN floor_rows : floor_rows[k] < last

\* a ground scan that entered at row 1, captured row 2 and was ended by row 3
C2_Witness ==
    /\ floor_type = "jisang"
    /\ s_pc = "break"
    /\ s_i = 3
    /\ floor_rows = <<1, 2>>
    /\ EntryRows = {1}
    /\ ExitRows = {3}

\* C3: basement band.  Every row without elevation or noise word that matches the
\* basement-style pattern for floor_num and that the loop has passed is captured,
\* and capture is on from the first of them; the first later row without elevation
\* or noise word that matches either boundary pattern and is no basement boundary
\* row for floor_num ends the loop (break at that row) and is not captured.
C3_BasementEntryAndExit ==
    (floor_type = "jiha" /\ s_pc # "idle") =>
        \A entries \in {EntryRows} : entries # {} =>
            /\ \A j \in entries : j < s_i => Captured(j)
            /\ (s_i > Min(entries) => capturing)
            /\ \A exits \in {ExitRowsOf(entries)} :
                  /\ (exits = {} => s_pc # "break")
                  /\ exits # {} =>
                        \A last \in {Min(exits)} :
                            /\ s_i <= last
                            /\ ~Captured(last)
                            /\ (s_pc \in {"break", "end"} => s_pc = "break" /\ s_i = last)

\* a basement scan that entered at row 1, captured row 2 and was ended by a
\* ground-style boundary row
C3_Witness ==
    /\ floor_type = "jiha"
    /\ s_pc = "break"
    /\ s_i = 3
    /\ floor_rows = <<1, 2>>
    /\ search(GroundPat, T(3))

\* row j is an elevation row, or follows one with no boundary row after the
\* elevation row up to and including j
InSkipSection(j) ==
    \E e \in 1..j :
        /\ RowWords[T(e)].elevation
        /\ \A m \in (e + 1)..j : ~RowWords[T(m)].boundary

\* C4: an elevation row, and every row after it before the next row that matches a
\* boundary pattern, is not captured, for either kind of band and also when
\* capture was on at the elevation row.
C4_SkipSectionNeverCaptured ==
    \A k \in DOMAIN floor_rows : ~InSkipSection(floor_rows[k])

\* capture was on when the elevation row 2 was met, and row 3 was passed over
C4_Witness ==
    /\ s_pc = "end"
    /\ Len(all_rows) = 3
    /\ floor_rows = <<1>>
    /\ capturing
    /\ RowWords[T(2)].elevation
    /\ T(3) = <<"x">>

\* C5 as stated: a row that holds one of the listed noise words is never captured.
C5_ListedNoiseNeverCaptured ==
    \A k \in DOMAIN floor_rows : ~RowWords[T(floor_rows[k])].listed

\* C5 as amended: a row that holds one of the noise words as the program spells
\* them is never captured, whatever the capture state and also when it is a
\* boundary-entry row for floor_num.
C5_SpelledNoiseNeverCaptured ==
    \A k \in DOMAIN floor_rows : ~RowWords[T(floor_rows[k])].spelled

\* a noisy boundary-entry row for floor_num was passed over before capture, and a
\* noise row while capture was on
C5_Witness ==
    /\ s_pc = "end"
    /\ Len(all_rows) = 3
    /\ floor_rows = <<2>>
    /\ RowWords[T(1)].spelled
    /\ IF floor_type = "jiha" THEN BasementBoundaryFor(T(1), floor_num)
       ELSE GroundBoundaryFor(T(1), floor_num)
    /\ RowWords[T(3)].spelled

\* the text matches the ground-style or the basement-style boundary pattern with
\* floor number n
NamesBoundaryFloor(text, n) ==
    \/ search(GroundPrefix \o LitStr(str(n)) \o <<Lit("cheung")>>, text)
    \/ search(BasementFloorPat(n), text)

\* the floor numbers of the model, other than f, that the boundary patterns find in
\* the text of row j
OtherFloors(j, f) == { n \in ModelFloors \ {f} : NamesBoundaryFloor(T(j), n) }

\* C15: for either kind of band, no captured row comes after a row that follows the
\* first entry row for floor_num and matches a boundary pattern for another floor,
\* whatever else that row holds (a noise word included).
C15_NoCaptureAfterOtherFloorBoundary ==
    s_pc # "idle" =>
        \A entries \in {EntryRows} : entries # {} =>
            \A b \in DOMAIN all_rows :
                (b > Min(entries) /\ OtherFloors(b, floor_num) # {}) =>
                    \A k \in DOMAIN floor_rows : floor_rows[k] <= b

\* -------------------------------------------------- the exported sheet

\* the position in combined_data of the title row of the k-th floor range (the names
\* of a section's ranges are distinct, and no section row starts with a bracket)
TitlePos(k) ==
    CHOOSE p \in DOMAIN combined_data :
        combined_data[p][1] = <<"[", " ", e_ranges[k].name, " ", "]">>

\* the rows of combined_data that follow the k-th title row, up to the next title row
BandRows(k) ==
    LET from == TitlePos(k) + 1
        to == IF k < Len(e_ranges) THEN TitlePos(k + 1) - 1 ELSE Len(combined_data)
    IN { combined_data[p] : p \in from..to }

\* C6: when the sheet is written, the band of every floor range with an end floor of
\* at least 15 holds every section row whose text has the rooftop or the roof word.
C6_RooftopRowsInBand ==
    e_pc = "done" =>
        \A k \in DOMAIN e_ranges :
            e_ranges[k].info.end_floor >= RooftopFloor =>
                \A j \in DOMAIN e_rows :
                    IsRooftop(row_text(values_tolist(e_rows)[j])) =>
                        values_tolist(e_rows)[j] \in BandRows(k)

\* the title row the layout asks for: the bracketed name, then empty cells, as many
\* cells as the section is wide
LayoutTitle(name) ==
    [c \in 1..Width(e_rows) |-> IF c = 1 THEN <<"[", " ", name, " ", "]">> ELSE <<>>]

\* the rows captured for floors f, f + 1, ..., last, one floor after the other
RECURSIVE LayoutFloors(_, _, _)
LayoutFloors(ftype, f, last) ==
    IF f > last THEN <<>>
    ELSE scan_floor(values_tolist(e_rows), ftype, f) \o LayoutFloors(ftype, f + 1, last)

\* the bands of floor ranges k, k + 1, ..., in the order of the list
RECURSIVE LayoutBands(_)
LayoutBands(k) ==
    IF k > Len(e_ranges) THEN <<>>
    ELSE <<LayoutTitle(e_ranges[k].name)>>
             \o LayoutFloors(e_ranges[k].info.floor_type, e_ranges[k].info.start_floor,
                             e_ranges[k].info.end_floor)
             \o LayoutBands(k + 1)

\* s is r with some items left out, the others in the order of r
RECURSIVE IsSubseq(_, _)
IsSubseq(s, r) ==
    IF Len(s) = 0 THEN TRUE
    ELSE IF Len(r) = 0 THEN FALSE
    ELSE IF s[1] = r[1] THEN IsSubseq(Tail(s), Tail(r))
    ELSE IsSubseq(s, Tail(r))

\* C10: band layout.  The rows emitted for a section are, for each floor range in
\* the order of the list, one title row (first cell the bracketed name, the other
\* cells empty, as wide as the section) followed by the rows captured for floor
\* start, then start + 1, ..., then end; the rows of each floor number are in
\* section order.
C10_BandLayout ==
    e_pc = "done" =>
        /\ combined_data = LayoutBands(1)
        /\ \A k \in DOMAIN e_ranges :
              \A f \in e_ranges[k].info.start_floor..e_ranges[k].info.end_floor :
                  IsSubseq(scan_floor(values_tolist(e_rows), e_ranges[k].info.floor_type, f),
                           values_tolist(e_rows))

\* a section two cells wide with two floor ranges, the first of which captured
\* rows for floor 1 and then for floor 2
C10_Witness ==
    /\ e_pc = "done"
    /\ Len(e_ranges) = 2
    /\ Width(e_rows) = 2
    /\ e_ranges[1].info = [floor_type |-> "jisang", start_floor |-> 1, end_floor |-> 2]
    /\ TitlePos(2) = 4
    /\ search(GroundPat, row_text(combined_data[2]))
    /\ int(GroundGroup(row_text(combined_data[2]))) = 1
    /\ int(GroundGroup(row_text(combined_data[3]))) = 2

\* -------------------------------------------------- filter_by_floor_range

\* how many items of seq are equal to row
Count(seq, row) == Cardinality({ k \in DOMAIN seq : seq[k] = row })

\* C9: when end_floor is at least 15 and the loop of filter_by_floor_range is over,
\* every row of the input whose text has the rooftop or the roof word is in the
\* result exactly once, also when it names a floor of the range and when the input
\* holds several rows equal to it.
C9_RooftopRowExactlyOnce ==
    (end_floor >= RooftopFloor /\ f_i > Len(f_rows)) =>
        \A j \in DOMAIN f_rows :
            IsRooftop(filter_text(f_rows[j])) => Count(filtered_rows, f_rows[j]) = 1

\* -------------------------------------------------- the session

\* parsing some content entry of the package fails
FailsToParse(package) == \E k \in DOMAIN package : ~package[k].ok

\* C7: an upload or analyse action on a package of which some content entry fails
\* to parse leaves the section map of the session (st.session_state.dong_data, None
\* counted as the empty map) as it was before the action.
C7_FailedParseLeavesSessionMap ==
    [][(last_action' \in {"upload", "analyse"} /\ FailsToParse(uploaded_file'))
          => session_dong_data'.items = session_dong_data.items]_vars

\* the download button is drawn, and make_excel_bytes called: the script run got to
\* line 283 and both maps are non-empty
DownloadOffered ==
    /\ u_app = "app"
    /\ ~Raises(uploaded_file)
    /\ DOMAIN session_dong_data.items # {}
    /\ DOMAIN session_floor_ranges # {}

\* the first 31 characters of a section identifier
SheetNameOf(dong) == SubSeq(dong, 1, Min({31, Len(dong)}))

\* the sheets of the workbook make_excel_bytes builds from the session
Workbook == sheet_names(session_dong_data.items, session_floor_ranges)

\* C11: whenever make_excel_bytes builds the workbook, it holds exactly one sheet for
\* every section of the section map, named by the identifier cut to 31 characters,
\* also for a section without floor ranges.
C11_OneSheetPerSection ==
    DownloadOffered =>
        /\ { Workbook[k] : k \in DOMAIN Workbook }
               = { SheetNameOf(d) : d \in DOMAIN session_dong_data.items }
        /\ \A d \in DOMAIN session_dong_data.items :
               Cardinality({ k \in DOMAIN Workbook : Workbook[k] = SheetNameOf(d) }) = 1

\* -------------------------------------------------- separators and empty ranges

\* every cell of the row is the empty string
IsBlankRow(row) == \A c \in DOMAIN row : row[c] = <<>>

\* C12: in the rows make_excel_bytes emits for a section with two or more floor
\* ranges, the row right before the title row of each later band is a blank row
\* that follows the title row and the captured rows of the band before it.
C12_BlankRowBetweenBands ==
    (e_pc = "done" /\ Len(e_ranges) >= 2) =>
        \A k \in 1..(Len(e_ranges) - 1) :
            /\ TitlePos(k + 1) - 1 > TitlePos(k)
            /\ IsBlankRow(combined_data[TitlePos(k + 1) - 1])

\* the position in p_combined of the title row of the k-th floor range
SplitTitlePos(k) ==
    CHOOSE p \in DOMAIN p_combined :
        p_combined[p][1] = <<"[", " ", p_ranges[k].name, " ", "]">>

\* the rows of p_combined after the k-th title row, up to the next title row,
\* that are not blank
SplitBandRows(k) ==
    LET from == SplitTitlePos(k) + 1
        to == IF k < Len(p_ranges) THEN SplitTitlePos(k + 1) - 1 ELSE Len(p_combined)
    IN { p \in from..to : ~IsBlankRow(p_combined[p]) }

\* C13: when split_by_floor_ranges is through the floor ranges of a sheet, every
\* range has its title row, and the band of a range with start_floor > end_floor
\* holds no row of the sheet, whatever end_floor is and whatever the rows are.
C13_ReversedRangeTitleOnly ==
    p_pc = "done" =>
        /\ \A k \in DOMAIN p_ranges :
              \E p \in DOMAIN p_combined :
                  p_combined[p][1] = <<"[", " ", p_ranges[k].name, " ", "]">>
        /\ \A k \in DOMAIN p_ranges :
              p_ranges[k].info.start_floor > p_ranges[k].info.end_floor =>
                  SplitBandRows(k) = {}

\* -------------------------------------------------- tag lookup

\* C14: for each of the table, row, cell and text-run lookups of each extractor, the
\* elements used are the descendants with the unqualified tag when there is one,
\* and those with the qualified tag only when there is none.
C14_UnqualifiedFirstNeverBoth ==
    l_pc = "done" =>
        l_found = IF Len(l_plain) > 0 THEN l_plain ELSE l_qualified

\* the text mentions floor number n: the digits of n, not preceded by a digit,
\* followed by the floor suffix
MentionsFloor(text, n) ==
    \E i \in DOMAIN text :
        /\ i + Len(str(n)) <= Len(text)
        /\ SubSeq(text, i, i + Len(str(n))) = str(n) \o <<"cheung">>
        /\ (i = 1 \/ ~IsDigit(text[i - 1]))

\* C16: with end_floor below 15, when the loop of filter_by_floor_range is over, every
\* returned row mentions a floor number of start_floor..end_floor, and the returned
\* rows are the input rows with some left out, in input order.
C16_OnlyRowsOfTheRange ==
    (end_floor < RooftopFloor /\ f_i > Len(f_rows)) =>
        /\ \A k \in DOMAIN filtered_rows :
              \E n \in start_floor..end_floor : MentionsFloor(filter_text(filtered_rows[k]), n)
        /\ IsSubseq(filtered_rows, f_rows)

\* C17: in every state of the session of hwpx_app.py in which the download is
\* offered, the workbook make_excel_bytes builds holds at least one sheet: some
\* section with a floor-range entry is a key of the section map.
C17_OfferedDownloadHasASheet ==
    DownloadOffered =>
        /\ Len(Workbook) >= 1
        /\ (DOMAIN session_floor_ranges) \cap (DOMAIN session_dong_data.items) # {}

====
